---- MODULE Spec2Model ----
(***************************************************************************)
(* A model of get_lnms.py: the parser and classifier (get_nm), the geodesy *)
(* helpers (angle_fixup, gc_dist_dir), the nearest-neighbour correlator    *)
(* (add_nearest_neighbor), the CSV writer (save_csv) and the assembler     *)
(* (main).                                                                 *)
(*                                                                         *)
(* Representation.  A Python str is a sequence of one-character strings,   *)
(* so that lower(), strip(), the regular expressions and the lexical       *)
(* comparisons of the source are computed character by character.  A       *)
(* record (a Python dict) is a function whose DOMAIN is the set of keys    *)
(* present; the dicts live in `heap` and the Python lists of dicts (data,  *)
(* nouse_data, the argument of a correlation pass) are sequences of heap   *)
(* references, so that a dict shared by two lists is one object.  Floats   *)
(* are fixed-point integers: degrees in 1e-5 degree, distances in 1e-4     *)
(* nautical mile, azimuths in 1e-3 degree.                                 *)
(***************************************************************************)
EXTENDS Integers, Sequences, FiniteSets, TLC

VARIABLES
  pc,             \* position of main: get_nm, pass_all, pass_use, save_full,
                  \* save_best, done, aborted (parse / parsed in SpecParse)
  charts,         \* main's argument: the chart numbers not yet fetched
  cur_year,       \* time.strftime('%y') of this run
  resp,           \* the response of the last requests.get, split into lines/fields
  field_names,    \* main's field_names (<<>> while None)
  heap,           \* every dict created by get_nm, in creation order
  data,           \* main's list `data`, as references into heap
  nouse_data,     \* main's list `nouse_data`
  lnms_csv,       \* the file lnms.csv: <<>> while not written, else <<file>>
  lnms_best_csv,  \* the file lnms_best.csv, likewise
  error,          \* the exception that ended the run, "none" otherwise
  fallback        \* whether some record of the last pass took `other = ii[i,0]`

vars == <<pc, charts, cur_year, resp, field_names, heap, data, nouse_data,
          lnms_csv, lnms_best_csv, error, fallback>>

(***************************************************************************)
(* Bounds of the model.                                                    *)
(***************************************************************************)
MaxCharts == 2
MaxRows == 2

(***************************************************************************)
(* Program constants.                                                      *)
(***************************************************************************)
meters_per_nautical_mile == 1852
\* 10/meters_per_nautical_mile of main's filter: the 10 (metres)
best_min_meters == 10
\* distance units per nautical mile of the fixed-point representation
DistUnitsPerNmi == 10000
\* the k of tree.query(..., k=2)
query_k == 2
\* number of columns get_nm reads (header[8] is the last one asserted)
header_len == 9
\* 360 degrees in 1e-3 degree
full_turn == 360000

(***************************************************************************)
(* Characters and strings.                                                 *)
(***************************************************************************)
\* The characters of the model, in code-point order.
Alphabet ==
  <<" ", "(", ")", "-", ".", "/", "0", "1", "2", "3", "4", "5", "6", "7", "8", "9",
    "A", "B", "C", "D", "E", "F", "G", "H", "I", "J", "K", "L", "M", "N", "O", "P",
    "Q", "R", "S", "T", "U", "V", "W", "X", "Y", "Z",
    "a", "b", "c", "d", "e", "f", "g", "h", "i", "j", "k", "l", "m", "n", "o", "p",
    "q", "r", "s", "t", "u", "v", "w", "x", "y", "z">>

UpperCase ==
  <<"A", "B", "C", "D", "E", "F", "G", "H", "I", "J", "K", "L", "M", "N", "O", "P",
    "Q", "R", "S", "T", "U", "V", "W", "X", "Y", "Z">>

LowerCase ==
  <<"a", "b", "c", "d", "e", "f", "g", "h", "i", "j", "k", "l", "m", "n", "o", "p",
    "q", "r", "s", "t", "u", "v", "w", "x", "y", "z">>

Digits == <<"0", "1", "2", "3", "4", "5", "6", "7", "8", "9">>

IndexOf(seq, c) == CHOOSE i \in 1..Len(seq) : seq[i] = c

Occurs(seq, c) == \E i \in 1..Len(seq) : seq[i] = c

\* ord(c), up to an order-preserving renumbering
ord(c) == IndexOf(Alphabet, c)

lower_char(c) == IF Occurs(UpperCase, c) THEN LowerCase[IndexOf(UpperCase, c)] ELSE c

upper_char(c) == IF Occurs(LowerCase, c) THEN UpperCase[IndexOf(LowerCase, c)] ELSE c

\* str.lower()
lower(s) == [i \in 1..Len(s) |-> lower_char(s[i])]

\* str.upper()
upper(s) == [i \in 1..Len(s) |-> upper_char(s[i])]

RECURSIVE lstrip(_)
lstrip(s) == IF s # <<>> /\ Head(s) = " " THEN lstrip(Tail(s)) ELSE s

RECURSIVE rstrip(_)
rstrip(s) ==
  IF s # <<>> /\ s[Len(s)] = " " THEN rstrip(SubSeq(s, 1, Len(s) - 1)) ELSE s

\* str.strip()
strip(s) == rstrip(lstrip(s))

\* Python's a < b on str: lexicographic on code points
RECURSIVE str_lt(_, _)
str_lt(a, b) ==
  IF b = <<>> THEN FALSE
  ELSE IF a = <<>> THEN TRUE
  ELSE IF Head(a) # Head(b) THEN ord(Head(a)) < ord(Head(b))
  ELSE str_lt(Tail(a), Tail(b))

\* Python's a <= b on str
str_le(a, b) == a = b \/ str_lt(a, b)

IsDigit(c) == Occurs(Digits, c)

\* str(n) of a natural number
RECURSIVE int_str(_)
int_str(n) ==
  IF n < 10 THEN <<Digits[n + 1]>>
  ELSE int_str(n \div 10) \o <<Digits[(n % 10) + 1]>>

(***************************************************************************)
(* String values of the source and of the sample inputs.                   *)
(***************************************************************************)
s_add == <<"a", "d", "d">>
s_delete == <<"d", "e", "l", "e", "t", "e">>
s_none == <<"n", "o", "n", "e">>
s_LNM_sp == <<"L", "N", "M", " ">>
s_20 == <<"2", "0">>
s_w == <<"w">>
s_y == <<"y">>
s_n == <<"n">>

s_Add == <<"A", "d", "d">>
s_add_sp == <<" ", "a", "d", "d">>
s_DELETE == <<"D", "E", "L", "E", "T", "E">>
s_Relocate == <<"R", "e", "l", "o", "c", "a", "t", "e">>
s_added == <<"a", "d", "d", "e", "d">>
s_Buoy == <<"B", "u", "o", "y">>
s_ANCHORAGE == <<"A", "N", "C", "H", "O", "R", "A", "G", "E">>
s_Fog_Sound == <<"F", "o", "g", " ", "S", "o", "u", "n", "d">>
s_Sound_Signal == <<"S", "o", "u", "n", "d", " ", "S", "i", "g", "n", "a", "l">>
s_Footnote == <<"F", "o", "o", "t", "n", "o", "t", "e">>
s_G_1 == <<"G", " ", "1">>
s_None == <<"N", "o", "n", "e">>
s_Nonesuch == <<"N", "o", "n", "e", "s", "u", "c", "h">>
s_LNM_05_23 == <<"L", "N", "M", " ", "0", "5", "/", "2", "3">>
s_LNM_05_99 == <<"L", "N", "M", " ", "0", "5", "/", "9", "9">>
s_LNM_52_17_CG == <<"L", "N", "M", " ", "5", "2", "/", "1", "7", " ", "(", "C", "G", ")">>
s_NM_05_17 == <<"N", "M", " ", "0", "5", "/", "1", "7">>
s_LNM_5_17 == <<"L", "N", "M", " ", "5", "/", "1", "7">>
s_LNM_05_17 == <<"L", "N", "M", " ", "0", "5", "/", "1", "7">>
s_LNM_10_16 == <<"L", "N", "M", " ", "1", "0", "/", "1", "6">>
s_18650 == <<"1", "8", "6", "5", "0">>
s_17 == <<"1", "7">>
s_23 == <<"2", "3">>
lat_A == <<"3", "7", ".", "8">>
lat_B == <<"3", "7", ".", "8", "0", "0", "0", "5">>
lat_C == <<"3", "7", ".", "9">>
lng_A == <<"-", "1", "2", "2", ".", "4">>
lng_C == <<"-", "1", "2", "2", ".", "5">>

\* The alternatives of the exclusion pattern of get_nm.
item_exclusions ==
  << <<"a", "n", "c", "h", "o", "r", "a", "g", "e">>,
     <<"b", "l", "a", "c", "k", " ", "d", "o", "u", "b", "l", "e", " ", "d", "a", "s", "h", "e", "d", " ", "l", "i", "n", "e">>,
     <<"b", "l", "a", "c", "k", " ", "l", "a", "b", "e", "l">>,
     <<"c", "h", "a", "n", "n", "e", "l", " ", "l", "i", "m", "i", "t">>,
     <<"d", "a", "s", "h", "e", "d", " ", "m", "a", "g", "e", "n", "t", "a", " ", "l", "i", "n", "e">>,
     <<"d", "e", "p", "t", "h", " ", "l", "e", "g", "e", "n", "d">>,
     <<"d", "o", "u", "b", "l", "e", " ", "s", "o", "l", "i", "d", " ", "l", "i", "n", "e", "s">>,
     <<"f", "e", "r", "r", "y", " ", "m", "a", "n", "e", "u", "v", "e", "r", "i", "n", "g", " ", "a", "r", "e", "a">>,
     <<"f", "e", "r", "r", "y", " ", "r", "o", "u", "t", "e">>,
     <<"l", "e", "g", "e", "n", "d">>,
     <<"n", "o", "t", "e">>,
     <<"o", "b", "s", "t", "r", "u", "c", "t", "i", "o", "n">>,
     <<"p", "i", "p", "e", "l", "i", "n", "e">>,
     <<"p", "r", "o", "h", "i", "b", "i", "t", "e", "d", " ", "a", "r", "e", "a">>,
     <<"r", "e", "s", "t", "r", "i", "c", "t", "e", "d", " ", "a", "r", "e", "a">>,
     <<"s", "h", "o", "a", "l", "i", "n", "g">>,
     <<"s", "u", "b", "m", "a", "r", "i", "n", "e", " ", "c", "a", "b", "l", "e">>,
     <<"s", "e", "c", "u", "r", "i", "t", "y", " ", "z", "o", "n", "e">>,
     <<"(", "s", "e", "e", " ", "n", "o", "t", "e">>,
     <<"s", "o", "u", "n", "d", " ">>,
     <<"s", "o", "u", "n", "d", "i", "n", "g">>,
     <<"t", "a", "b", "u", "l", "a", "t", "i", "o", "n">> >>

(***************************************************************************)
(* get_nm: the parser and the classifier.                                  *)
(***************************************************************************)
\* The header line of a well-formed listing, split on tabs.
GoodHeader ==
  <<"Chart", "Action", "Item Name", "Charting Label", "Latitude", "Longitude",
    "LatDD", "LongDD", "Published Document">>

\* A listing whose columns moved: LatDD and LongDD are swapped.
BadHeader ==
  <<"Chart", "Action", "Item Name", "Charting Label", "Latitude", "Longitude",
    "LongDD", "LatDD", "Published Document">>

\* The asserts on header[0..3] and header[6..8]; a header too short for an
\* index raises as well.
header_ok(header) ==
  /\ Len(header) >= header_len
  /\ header[1] = "Chart"
  /\ header[2] = "Action"
  /\ header[3] = "Item Name"
  /\ header[4] = "Charting Label"
  /\ header[7] = "LatDD"
  /\ header[8] = "LongDD"
  /\ header[9] = "Published Document"

\* re.match('LNM (?P<ww>[0-9]{2})/(?P<yy>[0-9]{2})', doc)
re_match_LNM(doc) ==
  /\ Len(doc) >= 9
  /\ SubSeq(doc, 1, 4) = s_LNM_sp
  /\ IsDigit(doc[5])
  /\ IsDigit(doc[6])
  /\ doc[7] = "/"
  /\ IsDigit(doc[8])
  /\ IsDigit(doc[9])

group_ww(doc) == SubSeq(doc, 5, 6)

group_yy(doc) == SubSeq(doc, 8, 9)

\* two characters equal under re.IGNORECASE
ic_eq(a, b) == lower_char(a) = lower_char(b)

\* the literal pat matches s at position k, ignoring case
ic_match_at(pat, s, k) ==
  /\ k + Len(pat) - 1 <= Len(s)
  /\ \A j \in 1..Len(pat) : ic_eq(pat[j], s[k + j - 1])

\* the same match without re.IGNORECASE
cs_match_at(pat, s, k) ==
  /\ k + Len(pat) - 1 <= Len(s)
  /\ \A j \in 1..Len(pat) : pat[j] = s[k + j - 1]

\* re.search('(anchorage)|...|(tabulation)', item, re.IGNORECASE)
re_search_exclusions_cs(item) ==
  \E t \in 1..Len(item_exclusions) :
    \E k \in 1..Len(item) : cs_match_at(item_exclusions[t], item, k)

re_search_exclusions(item) ==
  \E t \in 1..Len(item_exclusions) :
    \E k \in 1..Len(item) : ic_match_at(item_exclusions[t], item, k)

\* re.match('none', label, re.IGNORECASE)
re_match_none(label) == ic_match_at(s_none, label, 1)

\* rec['effective'] of lines 60-66, as the record to merge into rec
effective_of_swapped(doc, cy) ==
  IF re_match_LNM(doc) /\ str_le(group_yy(doc), cy)
  THEN [effective |-> s_20 \o group_ww(doc) \o s_w \o group_yy(doc)]
  ELSE <<>>

effective_of(doc, cy) ==
  IF re_match_LNM(doc) /\ str_le(group_yy(doc), cy)
  THEN [effective |-> s_20 \o group_yy(doc) \o s_w \o group_ww(doc)]
  ELSE <<>>

\* the condition of lines 73-76 under which use is 'y'
usable(rec) ==
  /\ "effective" \in DOMAIN rec
  /\ rec.action \in {s_add, s_delete}
  /\ ~ re_search_exclusions(rec.item)
  /\ ~ re_match_none(rec.label)

\* lines 47-80 for the line at 0-based position i: the record appended to
\* data, given the stripped fields
get_nm_rec(i, fields, cy, filter) ==
  LET rec0 == [id |-> i, chart |-> fields[1], action |-> lower(fields[2]),
               item |-> fields[3], label |-> fields[4], lat |-> fields[7],
               lng |-> fields[8], doc |-> fields[9]]
      rec1 == effective_of(rec0.doc, cy) @@ rec0
  IN  IF filter
      THEN [use |-> IF usable(rec1) THEN s_y ELSE s_n] @@ rec1
      ELSE rec1

\* [f.strip() for f in l.split('\t')]
strip_fields(l) == [j \in 1..Len(l) |-> strip(l[j])]

\* the loop of lines 46-80 over lines[2:]: the list `data`
RECURSIVE get_nm_data(_, _, _, _, _)
get_nm_data(lines, i, n_header, cy, filter) ==
  IF i > Len(lines) THEN <<>>
  ELSE LET fields == strip_fields(lines[i])
           rest == get_nm_data(lines, i + 1, n_header, cy, filter)
       IN  IF Len(fields) < n_header
           THEN rest
           ELSE <<get_nm_rec(i - 1, fields, cy, filter)>> \o rest

\* field_names of lines 81-92
get_nm_field_names ==
  <<"id", "chart", "action", "item", "label", "lat", "lng", "doc", "effective", "use">>

\* get_nm as a whole: the exception raised, or (field_names, data)
get_nm(r, cy, filter) ==
  IF r.status # "ok" THEN [error |-> "RequestException"]
  ELSE IF ~ header_ok(r.header) THEN [error |-> "AssertionError"]
  ELSE [error |-> "none",
        field_names |-> get_nm_field_names,
        data |-> get_nm_data(r.rows, 1, Len(r.header), cy, filter)]

(***************************************************************************)
(* float(): the coordinates as numbers.                                    *)
(***************************************************************************)
RECURSIVE digits_val(_)
digits_val(s) ==
  IF s = <<>> THEN 0
  ELSE 10 * digits_val(SubSeq(s, 1, Len(s) - 1)) + (IndexOf(Digits, s[Len(s)]) - 1)

all_digits(s) == \A i \in 1..Len(s) : IsDigit(s[i])

unsigned(s) == IF s # <<>> /\ Head(s) = "-" THEN Tail(s) ELSE s

dot_at(s) == IF Occurs(s, ".") THEN IndexOf(s, ".") ELSE Len(s) + 1

int_part(s) == SubSeq(unsigned(s), 1, dot_at(unsigned(s)) - 1)

frac_part(s) == SubSeq(unsigned(s), dot_at(unsigned(s)) + 1, Len(unsigned(s)))

\* float(s) returns: s is [-]digits[.digits]; anything else of the sample
\* inputs (the empty string) raises ValueError
float_ok(s) ==
  /\ int_part(s) # <<>>
  /\ all_digits(int_part(s))
  /\ all_digits(frac_part(s))

\* float(s) in 1e-5 degree
float(s) ==
  LET mag == 100000 * digits_val(int_part(s))
             + digits_val(SubSeq(frac_part(s) \o <<"0", "0", "0", "0", "0">>, 1, 5))
  IN  IF s # <<>> /\ Head(s) = "-" THEN 0 - mag ELSE mag

(***************************************************************************)
(* The geodesy engine.  The trigonometry of gc_dist_dir is tabulated: the  *)
(* entries are the values the source computes for the sample coordinates   *)
(* (dist floored to 1e-4 nmi, alpha and beta rounded to 1e-3 degree).      *)
(***************************************************************************)
angle_fixup(angle, lower_, upper_) ==
  IF angle < lower_ THEN angle + (upper_ - lower_)
  ELSE IF angle >= upper_ THEN angle - (upper_ - lower_)
  ELSE angle

\* c*r/meters_per_nautical_mile, alpha*180/pi and beta*180/pi of lines 120-128
gc_triangle(l1, p1, l2, p2) ==
  CASE <<l1, p1, l2, p2>> = <<-12240000, 3780000, -12240000, 3780000>>
         -> [dist |-> 0, alpha |-> 0, beta |-> 0]
    [] <<l1, p1, l2, p2>> = <<-12240000, 3780000, -12240000, 3780005>>
         -> [dist |-> 30, alpha |-> 0, beta |-> 180000]
    [] <<l1, p1, l2, p2>> = <<-12240000, 3780000, -12250000, 3790000>>
         -> [dist |-> 76491, alpha |-> -38265, beta |-> -141674]
    [] <<l1, p1, l2, p2>> = <<-12240000, 3780005, -12240000, 3780000>>
         -> [dist |-> 30, alpha |-> 180000, beta |-> 0]
    [] <<l1, p1, l2, p2>> = <<-12240000, 3780005, -12240000, 3780005>>
         -> [dist |-> 0, alpha |-> 0, beta |-> 0]
    [] <<l1, p1, l2, p2>> = <<-12240000, 3780005, -12250000, 3790000>>
         -> [dist |-> 76467, alpha |-> -38279, beta |-> -141660]
    [] <<l1, p1, l2, p2>> = <<-12250000, 3790000, -12240000, 3780000>>
         -> [dist |-> 76491, alpha |-> 141674, beta |-> 38265]
    [] <<l1, p1, l2, p2>> = <<-12250000, 3790000, -12240000, 3780005>>
         -> [dist |-> 76467, alpha |-> 141660, beta |-> 38279]
    [] <<l1, p1, l2, p2>> = <<-12250000, 3790000, -12250000, 3790000>>
         -> [dist |-> 0, alpha |-> 0, beta |-> 0]

\* (dist, a1_to_2, a2_to_1)
gc_dist_dir(lambda1, phi1, lambda2, phi2) ==
  LET t == gc_triangle(lambda1, phi1, lambda2, phi2)
  IN  <<t.dist,
        angle_fixup(full_turn + t.alpha, 0, full_turn),
        angle_fixup(full_turn - t.beta, 0, full_turn)>>

(***************************************************************************)
(* The spatial correlator.                                                 *)
(***************************************************************************)
\* as_array[:,2] = 128/pi*zoom*(lng+pi), rounded, for the sample longitudes
proj_x(lng) ==
  CASE lng = -12240000 -> -4975641
    [] lng = -12250000 -> -4979813

\* as_array[:,3] = 128/pi*zoom*(pi-log(tan(pi/4+lat/2))), rounded, for the
\* sample latitudes (the source feeds degrees to tan)
proj_y(lat) ==
  CASE lat = 3780000 -> 126856
    [] lat = 3780005 -> 126854
    [] lat = 3790000 -> 122634

\* the value of the list comprehension of line 141 raises ValueError: some
\* lat or lng is no number, or the list is empty and cannot be broadcast
\* into the (0,2) slice
coords_raise(lst, h) ==
  \/ lst = <<>>
  \/ \E k \in 1..Len(lst) : ~ float_ok(h[lst[k]].lat) \/ ~ float_ok(h[lst[k]].lng)

\* lines 140-145 for the first m records: a row of as_array is lat, lng
\* and the projected x and y
RECURSIVE as_array_upto(_, _, _)
as_array_upto(lst, h, m) ==
  IF m = 0 THEN <<>>
  ELSE LET lat == float(h[lst[m]].lat)
           lng == float(h[lst[m]].lng)
       IN  Append(as_array_upto(lst, h, m - 1), <<lat, lng, proj_x(lng), proj_y(lat)>>)

\* as_array of lines 140-145
as_array(lst, h) == as_array_upto(lst, h, Len(lst))

\* as_array[:,2:4]
projected(arr) == [k \in 1..Len(arr) |-> <<arr[k][3], arr[k][4]>>]

sq_dist(p, q) == (p[1] - q[1]) * (p[1] - q[1]) + (p[2] - q[2]) * (p[2] - q[2])

\* the squared distances from point i to the first m points
RECURSIVE sq_dists_upto(_, _, _)
sq_dists_upto(pts, i, m) ==
  IF m = 0 THEN <<>>
  ELSE Append(sq_dists_upto(pts, i, m - 1), sq_dist(pts[i], pts[m]))

\* the rows ii[i,:] that tree.query(pts, k=2) may return for point i: two
\* distinct points, nearest first, no third point nearer than the second;
\* ties are in the order the tree happens to visit them.  A tree of one
\* point has no second neighbour and reports the index n for it.
knn_rows(pts, i) ==
  IF Len(pts) < query_k
  THEN {<<i, Len(pts) + 1>>}
  ELSE LET dd == sq_dists_upto(pts, i, Len(pts))
       IN  {ab \in (1..Len(pts)) \X (1..Len(pts)) :
              /\ ab[1] # ab[2]
              /\ dd[ab[1]] <= dd[ab[2]]
              /\ \A c \in 1..Len(pts) : c \notin {ab[1], ab[2]} => dd[ab[2]] <= dd[c]}

\* new_fields of lines 148-150
new_fields(prefix) ==
  IF prefix # ""
  THEN <<prefix \o "_" \o "nearest_id", prefix \o "_" \o "dist_nmi",
         prefix \o "_" \o "a1_to_2">>
  ELSE <<"nearest_id", "dist_nmi", "a1_to_2">>

\* `other` of lines 152-154 without the fallback to slot 0
other_of_second_only(row, i) == row[2]

\* `other` of lines 152-154 for record i (1-based), row being ii[i,:]
other_of(row, i) == IF row[2] = i THEN row[1] ELSE row[2]

\* what lines 152-154 can make of record i: `other`, and whether the
\* fallback to slot 0 was taken
neighbour_choices(pts, i) ==
  {[other |-> other_of(row, i), fell_back |-> row[2] = i] : row \in knn_rows(pts, i)}

\* every outcome of tree.query followed by lines 152-154, for the first m
\* records: one choice per record, the rows of ii being independent
RECURSIVE tree_query_upto(_, _)
tree_query_upto(pts, m) ==
  IF m = 0 THEN {<<>>}
  ELSE LET shorter == tree_query_upto(pts, m - 1)
           choices == neighbour_choices(pts, m)
       IN  {Append(q, c) : q \in shorter, c \in choices}

tree_query(pts) == tree_query_upto(pts, Len(pts))

\* lines 155-159: record d annotated with its neighbour o; the floats of
\* line 155 are those of as_array[:,0:2], parsed from the same strings
annotated(d, o, row_d, row_o, nf) ==
  LET g == gc_dist_dir(row_d[2], row_d[1], row_o[2], row_o[1])
  IN  (nf[1] :> o.id) @@ (nf[2] :> g[1]) @@ (nf[3] :> g[2]) @@ d

\* the first record of the loop whose data[other] is out of range,
\* Len(lst) + 1 when there is none
first_bad(lst, sel) ==
  IF \E i \in 1..Len(lst) : sel[i].other > Len(lst)
  THEN CHOOSE i \in 1..Len(lst) :
         /\ sel[i].other > Len(lst)
         /\ \A j \in 1..(i - 1) : sel[j].other <= Len(lst)
  ELSE Len(lst) + 1

\* the loop of lines 151-159: the heap it leaves and the exception that
\* stopped it (IndexError at data[other]).  An iteration reads only id, lat
\* and lng, which no iteration writes, so every record is annotated from the
\* heap as the call found it; the records from the failing one on are left
\* as they were.
annotate_loop(lst, h, nf, arr, sel) ==
  LET stop == first_bad(lst, sel)
  IN  [error |-> IF stop <= Len(lst) THEN "IndexError" ELSE "none",
       heap |-> [r \in 1..Len(h) |->
                   IF \E i \in 1..(stop - 1) : lst[i] = r
                   THEN LET i == IndexOf(lst, r)
                            other == sel[i].other
                        IN  annotated(h[r], h[lst[other]], arr[i], arr[other], nf)
                   ELSE h[r]]]

\* what lines 139-147 and 152-154 leave to the loop: whether line 141
\* raised, as_array, and every choice of neighbours tree.query allows
correlation(lst, h) ==
  IF coords_raise(lst, h)
  THEN [raised |-> TRUE, as_array |-> <<>>, choices |-> {<<>>}]
  ELSE LET arr == as_array(lst, h)
       IN  [raised |-> FALSE, as_array |-> arr, choices |-> tree_query(projected(arr))]

\* add_nearest_neighbor(field_names, data, prefix), cor being
\* correlation(lst, h) and sel the choice of neighbours taken: the exception
\* raised, or the extended field_names, with the heap as the call leaves it
add_nearest_neighbor(fn, lst, h, prefix, cor, sel) ==
  IF cor.raised
  THEN [error |-> "ValueError", field_names |-> fn, heap |-> h, fallback |-> FALSE]
  ELSE LET r == annotate_loop(lst, h, new_fields(prefix), cor.as_array, sel)
       IN  [error |-> r.error,
            field_names |-> IF r.error = "none" THEN fn \o new_fields(prefix) ELSE fn,
            heap |-> r.heap,
            fallback |-> \E i \in 1..Len(lst) : sel[i].fell_back]

(***************************************************************************)
(* save_csv.  A file is <<>> while it does not exist and <<f>> once        *)
(* written; each row keeps, beside its cells, the reference of the dict it *)
(* was written from.  Numbers are rendered as the decimal digits of their  *)
(* fixed-point value.                                                      *)
(***************************************************************************)
number_fields ==
  {"id", "nearest_id", "dist_nmi", "a1_to_2",
   "all_nearest_id", "all_dist_nmi", "all_a1_to_2",
   "use_nearest_id", "use_dist_nmi", "use_a1_to_2"}

\* str(rec.get(f, ''))
str_get(rec, f) ==
  IF f \notin DOMAIN rec THEN <<>>
  ELSE IF f \in number_fields THEN int_str(rec[f])
  ELSE rec[f]

save_csv(fn, lst, h) ==
  [header |-> fn,
   rows |-> [k \in 1..Len(lst) |->
               [ref |-> lst[k],
                cells |-> [j \in 1..Len(fn) |-> str_get(h[lst[k]], fn[j])]]]]

(***************************************************************************)
(* main: the report assembler.                                             *)
(***************************************************************************)
\* the charts of line 188
chart_numbers ==
  << <<"1", "8", "6", "5", "0">>, <<"1", "8", "6", "5", "1">>,
     <<"1", "8", "6", "5", "3">>, <<"1", "8", "6", "5", "4">> >>

\* [d for d in lst if d['use'] == v]
select_use(lst, h, v) == SelectSeq(lst, LAMBDA r : h[r].use = v)

\* the argument of the second pass if it were given the whole of data
use_pass_input_everything(lst, h) == lst

\* the argument of the second pass, line 179
use_pass_input(lst, h) == select_use(lst, h, s_y)

\* r.get('effective', '')
sort_key(rec) == IF "effective" \in DOMAIN rec THEN rec.effective ELSE <<>>

\* insertion before the records of equal key: a sort that is not stable
RECURSIVE unstable_insert(_, _, _)
unstable_insert(sorted, r, h) ==
  IF sorted = <<>> THEN <<r>>
  ELSE IF str_le(sort_key(h[r]), sort_key(h[Head(sorted)])) THEN <<r>> \o sorted
  ELSE <<Head(sorted)>> \o unstable_insert(Tail(sorted), r, h)

\* insertion of r behind every record whose key is not greater
RECURSIVE stable_insert(_, _, _)
stable_insert(sorted, r, h) ==
  IF sorted = <<>> THEN <<r>>
  ELSE IF str_lt(sort_key(h[r]), sort_key(h[Head(sorted)])) THEN <<r>> \o sorted
  ELSE <<Head(sorted)>> \o stable_insert(Tail(sorted), r, h)

\* data.sort(key=lambda r: r.get('effective', '')): Python's sort is stable
RECURSIVE list_sort(_, _)
list_sort(lst, h) ==
  IF lst = <<>> THEN <<>>
  ELSE stable_insert(list_sort(SubSeq(lst, 1, Len(lst) - 1), h), lst[Len(lst)], h)

\* dist > 10/meters_per_nautical_mile, on distances in 1e-4 nmi
exceeds_min_separation(dist) ==
  dist * meters_per_nautical_mile > best_min_meters * DistUnitsPerNmi

\* the comprehension of line 184 reads d['use_dist_nmi'] of a usable record
\* that has none: KeyError
best_raises(lst, h) ==
  \E k \in 1..Len(lst) :
    h[lst[k]].use = s_y /\ "use_dist_nmi" \notin DOMAIN h[lst[k]]

\* the same comprehension reading all_dist_nmi
best_of_all_dist(lst, h) ==
  SelectSeq(lst, LAMBDA r :
    h[r].use = s_y /\ exceeds_min_separation(h[r].all_dist_nmi))

\* [d for d in data if d['use']=='y' and d['use_dist_nmi'] > 10/1852]
best_of(lst, h) ==
  SelectSeq(lst, LAMBDA r :
    h[r].use = s_y /\ exceeds_min_separation(h[r].use_dist_nmi))

\* main with lnms.csv saved before the second pass
main_flow_save_early ==
  <<"get_nm", "pass_all", "save_full", "pass_use", "save_best", "done">>

\* the statements of main in order: the loop of lines 174-176, line 177,
\* lines 178-179, lines 180-182, line 184
main_flow ==
  <<"get_nm", "pass_all", "pass_use", "save_full", "save_best", "done">>

step_after(p) == main_flow[IndexOf(main_flow, p) + 1]

(***************************************************************************)
(* The inputs: what requests.get may return for a chart.                   *)
(***************************************************************************)
listing_row(c, action, item, label, lat, lng, doc) ==
  <<c, action, item, label, <<>>, <<>>, lat, lng, doc>>

\* A line with fewer fields than the header (the trailing empty line of
\* every listing is one).
short_row(c) == <<c>>

SampleRows(c) ==
  { listing_row(c, s_Add, s_Buoy, s_G_1, lat_A, lng_A, s_LNM_05_17),
    listing_row(c, s_DELETE, s_Buoy, s_G_1, lat_B, lng_A, s_LNM_05_17),
    listing_row(c, s_Add, s_Buoy, s_G_1, lat_C, lng_C, s_LNM_10_16),
    listing_row(c, s_Add, s_ANCHORAGE, s_G_1, lat_A, lng_A, s_LNM_05_17),
    listing_row(c, s_Relocate, s_Buoy, s_None, lat_C, lng_C, s_LNM_05_99),
    listing_row(c, s_Add, s_Buoy, s_G_1, <<>>, lng_A, s_LNM_05_17),
    short_row(c) }

SeqsUpTo(S, m) == UNION {[1..k -> S] : k \in 0..m}

NoResponse == [status |-> "none", header |-> <<>>, rows |-> <<>>]

Responses(c) ==
  {[status |-> "fail", header |-> <<>>, rows |-> <<>>],
   [status |-> "ok", header |-> BadHeader, rows |-> <<>>]}
  \cup {[status |-> "ok", header |-> GoodHeader, rows |-> rs] :
          rs \in SeqsUpTo(SampleRows(c), MaxRows)}

(***************************************************************************)
(* The run of main(charts).                                                *)
(***************************************************************************)
Init ==
  /\ pc = "get_nm"
  /\ charts \in {SubSeq(chart_numbers, 1, m) : m \in 1..MaxCharts}
  /\ cur_year = s_17
  /\ resp = NoResponse
  /\ field_names = <<>>
  /\ heap = <<>>
  /\ data = <<>>
  /\ nouse_data = <<>>
  /\ lnms_csv = <<>>
  /\ lnms_best_csv = <<>>
  /\ error = "none"
  /\ fallback = FALSE

\* one turn of the loop of lines 174-176
GetNm ==
  /\ pc = "get_nm"
  /\ charts # <<>>
  /\ \E r \in Responses(Head(charts)) :
       LET res == get_nm(r, cur_year, TRUE)
       IN  /\ resp' = r
           /\ IF res.error # "none"
              THEN /\ pc' = "aborted"
                   /\ error' = res.error
                   /\ UNCHANGED <<charts, field_names, heap, data>>
              ELSE /\ field_names' = res.field_names
                   /\ heap' = heap \o res.data
                   /\ data' = data \o [k \in 1..Len(res.data) |-> Len(heap) + k]
                   /\ charts' = Tail(charts)
                   /\ pc' = IF Tail(charts) = <<>> THEN step_after("get_nm") ELSE "get_nm"
                   /\ error' = "none"
  /\ UNCHANGED <<cur_year, nouse_data, lnms_csv, lnms_best_csv, fallback>>

\* line 177
PassAll ==
  /\ pc = "pass_all"
  /\ \E cor \in {correlation(data, heap)} :
       \E sel \in cor.choices :
         \E res \in {add_nearest_neighbor(field_names, data, heap, "all", cor, sel)} :
           /\ field_names' = res.field_names
           /\ heap' = res.heap
           /\ fallback' = res.fallback
           /\ error' = res.error
           /\ pc' = IF res.error = "none" THEN step_after("pass_all") ELSE "aborted"
  /\ UNCHANGED <<charts, cur_year, resp, data, nouse_data, lnms_csv, lnms_best_csv>>

\* lines 178-179
PassUse ==
  /\ pc = "pass_use"
  /\ nouse_data' = select_use(data, heap, s_n)
  /\ \E lst \in {use_pass_input(data, heap)} :
       \E cor \in {correlation(lst, heap)} :
         \E sel \in cor.choices :
           \E res \in {add_nearest_neighbor(field_names, lst, heap, "use", cor, sel)} :
             /\ field_names' = res.field_names
             /\ heap' = res.heap
             /\ fallback' = res.fallback
             /\ error' = res.error
             /\ pc' = IF res.error = "none" THEN step_after("pass_use") ELSE "aborted"
  /\ UNCHANGED <<charts, cur_year, resp, data, lnms_csv, lnms_best_csv>>

\* lines 180-182
SaveFull ==
  /\ pc = "save_full"
  /\ data' = list_sort(nouse_data \o data, heap)
  /\ lnms_csv' = <<save_csv(field_names, data', heap)>>
  /\ pc' = step_after("save_full")
  /\ UNCHANGED <<charts, cur_year, resp, field_names, heap, nouse_data,
                 lnms_best_csv, error, fallback>>

\* line 184
SaveBest ==
  /\ pc = "save_best"
  /\ IF best_raises(data, heap)
     THEN /\ pc' = "aborted"
          /\ error' = "KeyError"
          /\ UNCHANGED lnms_best_csv
     ELSE /\ lnms_best_csv' = <<save_csv(field_names, best_of(data, heap), heap)>>
          /\ pc' = step_after("save_best")
          /\ UNCHANGED error
  /\ UNCHANGED <<charts, cur_year, resp, field_names, heap, data, nouse_data,
                 lnms_csv, fallback>>

Next == GetNm \/ PassAll \/ PassUse \/ SaveFull \/ SaveBest

Spec == Init /\ [][Next]_vars

(***************************************************************************)
(* get_nm on its own: one listing of one data line, over a wider range of  *)
(* actions, items, labels, document references and years.                  *)
(***************************************************************************)
ParseActions == {s_Add, s_add_sp, s_DELETE, s_Relocate, s_added}

ParseItems == {s_Buoy, s_ANCHORAGE, s_Fog_Sound, s_Sound_Signal, s_Footnote}

ParseLabels == {s_G_1, s_None, s_Nonesuch, <<>>}

ParseDocs ==
  {s_LNM_05_23, s_LNM_05_99, s_LNM_52_17_CG, s_NM_05_17, s_LNM_5_17, <<>>}

ParseYears == {s_17, s_23}

ParseRows ==
  {listing_row(s_18650, a, it, lb, lat_A, lng_A, dc) :
     a \in ParseActions, it \in ParseItems, lb \in ParseLabels, dc \in ParseDocs}

InitParse ==
  /\ pc = "parse"
  /\ charts = <<s_18650>>
  /\ cur_year \in ParseYears
  /\ resp \in {[status |-> "ok", header |-> GoodHeader, rows |-> <<row>>] :
                 row \in ParseRows}
  /\ field_names = <<>>
  /\ heap = <<>>
  /\ data = <<>>
  /\ nouse_data = <<>>
  /\ lnms_csv = <<>>
  /\ lnms_best_csv = <<>>
  /\ error = "none"
  /\ fallback = FALSE

\* get_nm(chart_num) on the listing in resp
ParseListing ==
  /\ pc = "parse"
  /\ LET res == get_nm(resp, cur_year, TRUE)
     IN  /\ field_names' = res.field_names
         /\ heap' = res.data
         /\ data' = [k \in 1..Len(res.data) |-> k]
  /\ pc' = "parsed"
  /\ UNCHANGED <<charts, cur_year, resp, nouse_data, lnms_csv, lnms_best_csv,
                 error, fallback>>

NextParse == ParseListing

SpecParse == InitParse /\ [][NextParse]_vars

(***************************************************************************)
(* Properties.                                                             *)
(***************************************************************************)
Refs == 1..Len(heap)

\* add_nearest_neighbor(..., prefix) has returned: field_names is extended
\* on its last line only
PassReturned(prefix) ==
  \E k \in 1..Len(field_names) : field_names[k] = prefix \o "_nearest_id"

UsableRefs == {r \in Refs : heap[r].use = s_y}

DistinctIds(rs) == \A r1, r2 \in rs : r1 # r2 => heap[r1].id # heap[r2].id

SameCoordinates(r1, r2) == heap[r1].lat = heap[r2].lat /\ heap[r1].lng = heap[r2].lng

CoordinatesParse(rs) == \A r \in rs : float_ok(heap[r].lat) /\ float_ok(heap[r].lng)

\* C1: once a correlation pass over records with pairwise distinct ids has
\* returned, no record's <prefix>_nearest_id is the record's own id, also
\* when records share their coordinates (both passes of main).
C1_NoSelfMatch ==
  /\ (PassReturned("all") /\ DistinctIds(Refs)) =>
       \A r \in Refs : heap[r].all_nearest_id # heap[r].id
  /\ (PassReturned("use") /\ DistinctIds(UsableRefs)) =>
       \A r \in UsableRefs : heap[r].use_nearest_id # heap[r].id

\* C1 witness: the first pass has returned over records with distinct ids,
\* two of them at the same coordinates, and the second slot of some row of
\* ii was the record itself, so that the first slot was used.
C1_Witness ==
  /\ pc = "pass_use"
  /\ PassReturned("all")
  /\ DistinctIds(Refs)
  /\ fallback
  /\ \E r1, r2 \in Refs : r1 # r2 /\ SameCoordinates(r1, r2)

\* C2: lnms.csv holds every record parsed from the charts exactly once.
C2_FullReportEveryRecordOnce ==
  lnms_csv # <<>> =>
    /\ Len(lnms_csv[1].rows) = Len(heap)
    /\ \A r \in Refs :
         Cardinality({k \in 1..Len(lnms_csv[1].rows) : lnms_csv[1].rows[k].ref = r}) = 1

\* s occurs in t as a substring
Contains(t, s) ==
  \E k \in 1..Len(t) : k + Len(s) - 1 <= Len(t) /\ SubSeq(t, k, k + Len(s) - 1) = s

StartsWith(t, s) == Len(t) >= Len(s) /\ SubSeq(t, 1, Len(s)) = s

case_of(s, m) == CASE m = 0 -> s [] m = 1 -> upper(s) [] m = 2 -> lower(s)

\* the line l with the letter case of action, item and label changed
CaseVariants(l) ==
  {[l EXCEPT ![2] = case_of(l[2], a), ![3] = case_of(l[3], b), ![4] = case_of(l[4], c)] :
     a \in 0..2, b \in 0..2, c \in 0..2}

\* C3: a parsed record has use 'y' exactly when it has an effective field,
\* its action is 'add' or 'delete', its item lower-cased contains no
\* exclusion term and its label lower-cased does not begin with 'none';
\* otherwise use is 'n'; and changing the letter case of action, item and
\* label of the input line leaves use as it is.
C3_UseIff ==
  pc = "parsed" =>
    \A k \in 1..Len(heap) :
      LET rec == heap[k]
      IN  /\ rec.use \in {s_y, s_n}
          /\ rec.use = s_y <=>
               /\ "effective" \in DOMAIN rec
               /\ rec.action = s_add \/ rec.action = s_delete
               /\ \A t \in 1..Len(item_exclusions) :
                    ~ Contains(lower(rec.item), item_exclusions[t])
               /\ ~ StartsWith(lower(rec.label), s_none)
          /\ \A v \in CaseVariants(resp.rows[k]) :
               get_nm([resp EXCEPT !.rows = <<v>>], cur_year, TRUE).data[1].use = rec.use

\* C3 witness: a record that has an effective field, action 'add' or
\* 'delete' and an unobjectionable label is not usable because of an
\* exclusion term written in capitals.
C3_Witness ==
  /\ pc = "parsed"
  /\ Len(heap) = 1
  /\ heap[1].item = s_ANCHORAGE
  /\ "effective" \in DOMAIN heap[1]
  /\ heap[1].action = s_delete
  /\ heap[1].label = s_G_1
  /\ heap[1].use = s_n

\* C4: lnms_best.csv holds exactly the rows of lnms.csv whose record has
\* use 'y' and use_dist_nmi above 10/1852 nmi, in the order of lnms.csv.
C4_BestIsFilterOfFull ==
  lnms_best_csv # <<>> =>
    /\ lnms_csv # <<>>
    /\ lnms_best_csv[1].header = lnms_csv[1].header
    /\ lnms_best_csv[1].rows =
         SelectSeq(lnms_csv[1].rows, LAMBDA row :
           /\ heap[row.ref].use = s_y
           /\ heap[row.ref].use_dist_nmi * meters_per_nautical_mile
                > best_min_meters * DistUnitsPerNmi)

\* C4 witness: both reports are written, the filtered one has a row, and
\* the full one has a usable record at or below the threshold and a record
\* that is not usable.
C4_Witness ==
  /\ lnms_best_csv # <<>>
  /\ Len(lnms_best_csv[1].rows) >= 1
  /\ \E r \in UsableRefs :
       heap[r].use_dist_nmi * meters_per_nautical_mile <= best_min_meters * DistUnitsPerNmi
  /\ \E r \in Refs : heap[r].use = s_n

\* C5: a parsed record has an effective field exactly when its doc starts
\* with 'LNM ', two digits, '/', two digits and the year digits are
\* lexically at most the current two-digit year; effective is then '20',
\* the year, 'w', the week; the line is returned as a record either way.
C5_Effective ==
  pc = "parsed" =>
    /\ Len(heap) = Len(resp.rows)
    /\ \A k \in 1..Len(heap) :
         LET rec == heap[k]
             doc == rec.doc
             matches == /\ Len(doc) >= 9
                        /\ <<doc[1], doc[2], doc[3], doc[4], doc[7]>> = <<"L", "N", "M", " ", "/">>
                        /\ \A j \in {5, 6, 8, 9} : \E dg \in 0..9 : doc[j] = Digits[dg + 1]
             not_future == \/ ord(doc[8]) < ord(cur_year[1])
                           \/ doc[8] = cur_year[1] /\ ord(doc[9]) <= ord(cur_year[2])
         IN  /\ "effective" \in DOMAIN rec <=> (matches /\ not_future)
             /\ "effective" \in DOMAIN rec =>
                  rec.effective = <<"2", "0", doc[8], doc[9], "w", doc[5], doc[6]>>

\* C5 witness: in year 23 the reference 'LNM 05/23' gives 2023w05.
C5_Witness ==
  /\ pc = "parsed"
  /\ cur_year = s_23
  /\ Len(heap) = 1
  /\ heap[1].doc = s_LNM_05_23
  /\ "effective" \in DOMAIN heap[1]
  /\ heap[1].effective = <<"2", "0", "2", "3", "w", "0", "5">>

EffectiveOrEmpty(r) == IF "effective" \in DOMAIN heap[r] THEN heap[r].effective ELSE <<>>

\* the list main sorts: nouse_data + data of line 180, data being every
\* record in creation order
MergedList == nouse_data \o [k \in 1..Len(heap) |-> k]

FullReportRefs == [k \in 1..Len(lnms_csv[1].rows) |-> lnms_csv[1].rows[k].ref]

C7_DegenerateSetHandled ==
  /\ ~ (/\ pc = "aborted"
        /\ error \in {"ValueError", "IndexError"}
        /\ charts = <<>>
        /\ ~ PassReturned("all")
        /\ Len(heap) < 2
        /\ CoordinatesParse(Refs))
  /\ ~ (/\ pc = "aborted"
        /\ error \in {"ValueError", "IndexError"}
        /\ PassReturned("all")
        /\ ~ PassReturned("use")
        /\ Cardinality(UsableRefs) < 2)

\* C8: a run ended by an exception has written neither lnms.csv nor
\* lnms_best.csv.
C8_NoOutputOnError ==
  /\ pc = "aborted" <=> error # "none"
  /\ error # "none" => lnms_csv = <<>> /\ lnms_best_csv = <<>>

\* C8 witness: the first pass raised ValueError on a latitude that is no
\* number, after every chart was parsed, and no file exists.
C8_Witness ==
  /\ pc = "aborted"
  /\ error = "ValueError"
  /\ charts = <<>>
  /\ Len(heap) >= 2
  /\ ~ CoordinatesParse(Refs)
  /\ lnms_csv = <<>>
  /\ lnms_best_csv = <<>>

\* C9: when a correlation pass is about to run, the ids of the records of
\* its working set are pairwise distinct.
C9_IdsDistinctAtPass ==
  /\ pc = "pass_all" => DistinctIds(Refs)
  /\ pc = "pass_use" => DistinctIds(UsableRefs)

use_fields == {"use_nearest_id", "use_dist_nmi", "use_a1_to_2"}

\* C10: the second pass leaves every record of use 'n' as it was, and
\* changes no field of any record other than use_nearest_id, use_dist_nmi
\* and use_a1_to_2.
C10_UsePassFrame ==
  [][pc = "pass_use" =>
       /\ Len(heap') = Len(heap)
       /\ \A r \in Refs :
            /\ heap[r].use = s_n => heap'[r] = heap[r]
            /\ DOMAIN heap[r] \subseteq DOMAIN heap'[r]
            /\ DOMAIN heap'[r] \subseteq DOMAIN heap[r] \cup use_fields
            /\ \A f \in DOMAIN heap[r] \ use_fields : heap'[r][f] = heap[r][f]]_vars

\* C10 witness: the second pass has returned; a usable record carries the
\* use_ fields and a record of use 'n' carries none of them.
C10_Witness ==
  /\ pc = "save_full"
  /\ PassReturned("use")
  /\ \E r \in UsableRefs : use_fields \subseteq DOMAIN heap[r]
  /\ \E r \in Refs : heap[r].use = s_n /\ DOMAIN heap[r] \cap use_fields = {}

====
